---- MODULE Spec2Model ----
(***************************************************************************)
(* Model of the card renderer of imas-cd-card/scripts/render_cd_card.py:   *)
(* the greedy character wrapper _wrap, the one-line font fitter            *)
(* fit_one_line_font, the height estimator _estimate_height and the draw   *)
(* pass of render_card.                                                    *)
(*                                                                         *)
(* Text is a sequence of glyph classes: "W" a full-width (CJK) glyph whose *)
(* advance is one em, "n" a half-width (Latin) glyph whose advance is half *)
(* an em, "z" a zero-advance glyph (combining mark).  draw.textlength      *)
(* returns a float; the model measures in half pixels so that every width  *)
(* is an exact integer, and compares against twice the pixel budget.       *)
(***************************************************************************)
EXTENDS Integers, Sequences, FiniteSets, TLC

VARIABLES
    \* ---- one render_card call ----
    pc,            \* position of the call
    event_url,     \* argument: the link text
    info,          \* argument: the release record (dict)
    w,             \* argument: canvas width
    hArg,          \* argument h: <<>> for None, <<n>> for a fixed height n
    max_height,    \* argument
    h,             \* resolved canvas height
    canvas,        \* TRUE once Image.new((w, h)) at line 293 has run
    y,             \* left panel cursor
    cover_bottom,  \* <<cover_box[3]>> once the box is drawn, <<>> before
    ry,            \* right panel cursor
    ti,            \* number of tracks the for loop has been through
    rows,          \* number of track main lines drawn
    last_bottom,   \* <<bottom y of the last track / staff line drawn>>, or <<>>
    qr_top_limit,  \* local of the same name (computed, never read)
    qr_y,          \* top of the QR block
    relocated,     \* TRUE when the branch at line 382 was taken
    markers,       \* number of truncation marker lines drawn
    marker_y,      \* top y of the truncation marker
    url_y,         \* top of the link line
    url_size,      \* size of the font the link line is drawn with
    saved,         \* TRUE once img.save has run
    error,         \* the exception that left render_card, or None
    \* ---- one _wrap call ----
    wpc, wText, wSize, wMaxw, wOut,
    \* ---- fit_one_line_font calls on one text with a shrinking budget ----
    fpc, fText, fStart, fMin, fMaxw, fSize, fPrev,
    \* ---- _estimate_height on a record, and on it with one more track ----
    epc, eInfo, eW, eBefore, eAfter

renderVars == <<pc, event_url, info, w, hArg, max_height, h, canvas, y,
                cover_bottom, ry, ti, rows, last_bottom, qr_top_limit, qr_y,
                relocated, markers, marker_y, url_y, url_size, saved, error>>
wrapVars == <<wpc, wText, wSize, wMaxw, wOut>>
fitVars == <<fpc, fText, fStart, fMin, fMaxw, fSize, fPrev>>
estVars == <<epc, eInfo, eW, eBefore, eAfter>>
vars == <<renderVars, wrapVars, fitVars, estVars>>

None == "None"

\* ------------------------------------------------------------- bounds
\* longest text handed to _wrap / fit_one_line_font on their own
MaxLen == 3
\* most tracks in a release record
MaxTracks == 2

\* ---------------------------------------------------- program constants
pad == 30
left_w == 430
qr_size == 190
font_date == 30
font_title == 34
font_body == 26
font_small == 20
font_staff == 22
url_start_size == 20
url_min_size == 12

\* ------------------------------------------------------------- helpers
Glyphs == {"W", "n", "z"}

Rep(c, k) == [i \in 1..k |-> c]

Max(a, b) == IF a >= b THEN a ELSE b
Min(a, b) == IF a <= b THEN a ELSE b

RECURSIVE Flatten(_)
Flatten(lines) ==
    IF lines = <<>> THEN <<>> ELSE Head(lines) \o Flatten(Tail(lines))

\* lst[:2]
First2(lst) == SubSeq(lst, 1, Min(2, Len(lst)))

\* advance of one glyph at a font size, in half pixels
Advance2(ch, size) ==
    CASE ch = "W" -> 2 * size
      [] ch = "n" -> size
      [] OTHER -> 0

\* draw.textlength(text, font=font), in half pixels
RECURSIVE AdvanceSum(_, _, _)
AdvanceSum(text, size, i) ==
    IF i > Len(text) THEN 0
    ELSE Advance2(text[i], size) + AdvanceSum(text, size, i + 1)

TextLength2(text, size) == AdvanceSum(text, size, 1)

\* draw.textlength(text, font=font) <= maxw
Fits(text, size, maxw) == TextLength2(text, size) <= 2 * maxw

\* ---------------------------------------------------------------- _wrap
RECURSIVE WrapLoop(_, _, _, _, _, _)
WrapLoop(text, size, maxw, i, line, out) ==
    IF i > Len(text)
    THEN IF line # <<>> THEN Append(out, line) ELSE out
    ELSE LET ch == text[i]
             test == Append(line, ch)
         IN  IF Fits(test, size, maxw)
             THEN WrapLoop(text, size, maxw, i + 1, test, out)
             ELSE WrapLoop(text, size, maxw, i + 1, <<ch>>,
                           IF line # <<>> THEN Append(out, line) ELSE out)

\* mutant: the overflowing character is committed before the line is closed
RECURSIVE WrapLoopLate(_, _, _, _, _, _)
WrapLoopLate(text, size, maxw, i, line, out) ==
    IF i > Len(text)
    THEN IF line # <<>> THEN Append(out, line) ELSE out
    ELSE LET ch == text[i]
             test == Append(line, ch)
         IN  IF Fits(test, size, maxw)
             THEN WrapLoopLate(text, size, maxw, i + 1, test, out)
             ELSE WrapLoopLate(text, size, maxw, i + 1, <<>>, Append(out, test))

_wrap_late(text, size, maxw) == WrapLoopLate(text, size, maxw, 1, <<>>, <<>>)

\* mutant: the overflowing character is dropped instead of starting a line
RECURSIVE WrapLoopDrop(_, _, _, _, _, _)
WrapLoopDrop(text, size, maxw, i, line, out) ==
    IF i > Len(text)
    THEN IF line # <<>> THEN Append(out, line) ELSE out
    ELSE LET ch == text[i]
             test == Append(line, ch)
         IN  IF Fits(test, size, maxw)
             THEN WrapLoopDrop(text, size, maxw, i + 1, test, out)
             ELSE WrapLoopDrop(text, size, maxw, i + 1, <<>>,
                           IF line # <<>> THEN Append(out, line) ELSE out)

_wrap_drop(text, size, maxw) == WrapLoopDrop(text, size, maxw, 1, <<>>, <<>>)

_wrap(text, size, maxw) == WrapLoop(text, size, maxw, 1, <<>>, <<>>)

\* ---------------------------------------------------- fit_one_line_font
\* the size of the font returned
RECURSIVE FitLoop(_, _, _, _)
FitLoop(text, maxw, size, min_size) ==
    IF size >= min_size
    THEN IF Fits(text, size, maxw) THEN size
         ELSE FitLoop(text, maxw, size - 1, min_size)
    ELSE min_size

\* mutant: the comparison against the budget is reversed
RECURSIVE FitLoopRev(_, _, _, _)
FitLoopRev(text, maxw, size, min_size) ==
    IF size >= min_size
    THEN IF ~Fits(text, size, maxw) THEN size
         ELSE FitLoopRev(text, maxw, size - 1, min_size)
    ELSE min_size

fit_rev(text, maxw, start_size, min_size) ==
    FitLoopRev(text, maxw, start_size, min_size)

\* mutant: the scan runs upward from min_size and returns the first fit
RECURSIVE FitLoopUp(_, _, _, _, _)
FitLoopUp(text, maxw, size, start_size, min_size) ==
    IF size <= start_size
    THEN IF Fits(text, size, maxw) THEN size
         ELSE FitLoopUp(text, maxw, size + 1, start_size, min_size)
    ELSE min_size

fit_up(text, maxw, start_size, min_size) ==
    FitLoopUp(text, maxw, min_size, start_size, min_size)

fit_one_line_font(text, maxw, start_size, min_size) ==
    FitLoop(text, maxw, start_size, min_size)

\* ------------------------------------------------------- _estimate_height
right_x == pad + left_w + 30
RightW(w_) == w_ - right_x - pad

\* " / ".join(t["staff"])
RECURSIVE Join(_)
Join(lst) ==
    IF lst = <<>> THEN <<>>
    ELSE IF Len(lst) = 1 THEN lst[1]
    ELSE lst[1] \o <<"n", "n", "n">> \o Join(Tail(lst))

\* f"発売日：{info['release_date']}"
DateLine(info_) == Rep("W", 4) \o info_.release_date

\* what one iteration of the loop at lines 222-229 adds to y
EstTrack(t, w_) ==
    (font_body + 2)
    + (IF t.staff # <<>>
       THEN Len(First2(_wrap(Join(t.staff), font_staff, RightW(w_) - 60)))
            * (font_staff + 2)
       ELSE 0)
    + 8

\* mutant: the loop overwrites y with each track instead of adding to it
EstTracksLast(tracks, w_) ==
    IF tracks = <<>> THEN 0 ELSE EstTrack(tracks[Len(tracks)], w_)

RECURSIVE EstTracks(_, _)
EstTracks(tracks, w_) ==
    IF tracks = <<>> THEN 0
    ELSE EstTrack(Head(tracks), w_) + EstTracks(Tail(tracks), w_)

\* mutant: the estimator forgets the staff lines of a track
RightAccumNoStaff(info_, w_) ==
    (pad + 18)
    + (IF info_.artists # <<>>
       THEN Len(First2(_wrap(info_.artists, font_small, RightW(w_) - 40)))
            * (font_small + 3) + 8
       ELSE 0)
    + (font_body + 8)
    + Len(info_.tracks) * (font_body + 2 + 8)
    + (18 + qr_size + 8)
    + (font_small + 10)
    + pad

\* the right panel accumulation: y at line 236
RightAccum(info_, w_) ==
    (pad + 18)
    + (IF info_.artists # <<>>
       THEN Len(First2(_wrap(info_.artists, font_small, RightW(w_) - 40)))
            * (font_small + 3) + 8
       ELSE 0)
    + (font_body + 8)
    + EstTracks(info_.tracks, w_)
    + (18 + qr_size + 8)
    + (font_small + 10)
    + pad

\* the left panel accumulation: left_min at line 243
LeftMin(info_) ==
    (pad + 18)
    + (IF info_.release_date # <<>>
       THEN Len(_wrap(DateLine(info_), font_date, left_w - 40)) * (font_date + 6)
       ELSE 0)
    + Len(_wrap(info_.title, font_title, left_w - 40)) * (font_title + 4)
    + (10 + (left_w - 40) + pad)

\* mutant: the left panel minimum is left out of the estimate
_estimate_height_right(info_, w_, max_height_) ==
    Min(max_height_, RightAccum(info_, w_))

_estimate_height(info_, w_, max_height_) ==
    Min(max_height_, Max(RightAccum(info_, w_), LeftMin(info_)))

\* lines 275-291 of render_card
ResolveHeight(h_, info_, w_, max_height_) ==
    IF h_ = <<>> THEN _estimate_height(info_, w_, max_height_)
    ELSE Min(max_height_, h_[1])

\* ------------------------------------------------- inputs of render_card
Widths == {500, 520, 620, 1200}
Heights == {<<>>, <<200>>, <<2000>>}
MaxHeights == {450, 1500}
Urls == {Rep("n", 8)}
Dates == {<<>>, Rep("n", 8)}
Titles == {<<>>, Rep("W", 2), Rep("W", 12)}
ArtistLines == {<<>>, Rep("W", 7)}
CoverUrls == {None, "url"}
StaffLists == {<<>>, <<Rep("W", 1)>>, <<Rep("W", 1), Rep("W", 1)>>}
Tracks == {[no |-> Rep("n", 2), title |-> Rep("W", 2), staff |-> s] : s \in StaffLists}
TrackLists == UNION {[1..k -> Tracks] : k \in 0..MaxTracks}
Infos == [release_date : Dates, title : Titles, artists : ArtistLines,
          cover_url : CoverUrls, tracks : TrackLists]

\* what fetch_image raises: requests' errors, raise_for_status, Image.open
FetchErrors == {"RequestException", "HTTPError", "UnidentifiedImageError"}

\* ImageDraw refuses a box with x1 < x0 or y1 < y0 in the Pillow releases
\* that check it (ValueError); older releases draw it
BoxOK(x0, y0, x1, y1) == x1 >= x0 /\ y1 >= y0

\* ------------------------------------------------------------ render_card
\* lines 250-291: the call, the fonts, the measuring surface and the height
RenderCard(url_, info_, w_, h_, max_height_) ==
    /\ pc = "idle"
    /\ event_url' = url_
    /\ info' = info_
    /\ w' = w_
    /\ hArg' = h_
    /\ max_height' = max_height_
    /\ h' = ResolveHeight(h_, info_, w_, max_height_)
    /\ pc' = "canvas"
    /\ UNCHANGED <<canvas, y, cover_bottom, ry, ti, rows, last_bottom,
                   qr_top_limit, qr_y, relocated, markers, marker_y, url_y,
                   url_size, saved, error>>

\* lines 293-315: the canvas is allocated, then the two panels are drawn
NewCanvas ==
    /\ pc = "canvas"
    /\ canvas' = TRUE
    /\ \/ /\ BoxOK(pad, pad, pad + left_w, h - pad)
          /\ BoxOK(right_x, pad, w - pad, h - pad)
          /\ pc' = "left"
          /\ error' = error
       \/ /\ ~(BoxOK(pad, pad, pad + left_w, h - pad)
               /\ BoxOK(right_x, pad, w - pad, h - pad))
          /\ \/ pc' = "raised" /\ error' = "ValueError"
             \/ pc' = "left" /\ error' = error
    /\ UNCHANGED <<event_url, info, w, hArg, max_height, h, y, cover_bottom,
                   ry, ti, rows, last_bottom, qr_top_limit, qr_y, relocated,
                   markers, marker_y, url_y, url_size, saved>>
    /\ UNCHANGED <<wrapVars, fitVars, estVars>>

\* lines 317-330: date and title lines of the left panel
DrawLeft ==
    /\ pc = "left"
    /\ y' = (pad + 18)
            + (IF info.release_date # <<>>
               THEN Len(_wrap(DateLine(info), font_date, left_w - 40))
                    * (font_date + 6)
               ELSE 0)
            + Len(_wrap(info.title, font_title, left_w - 40)) * (font_title + 4)
            + 10
    /\ pc' = "cover"
    /\ UNCHANGED <<event_url, info, w, hArg, max_height, h, canvas,
                   cover_bottom, ry, ti, rows, last_bottom, qr_top_limit, qr_y,
                   relocated, markers, marker_y, url_y, url_size, saved, error>>
    /\ UNCHANGED <<wrapVars, fitVars, estVars>>

\* lines 331-339: the cover is fetched and pasted, then its box is drawn
DrawCover ==
    /\ pc = "cover"
    /\ \/ /\ info.cover_url = None
          /\ cover_bottom' = <<y + (left_w - 40)>>
          /\ pc' = "right"
          /\ error' = error
       \/ /\ info.cover_url # None
          /\ \/ /\ cover_bottom' = <<y + (left_w - 40)>>
                /\ pc' = "right"
                /\ error' = error
             \/ /\ \E e \in FetchErrors : error' = e
                /\ pc' = "raised"
                /\ cover_bottom' = cover_bottom
    /\ UNCHANGED <<event_url, info, w, hArg, max_height, h, canvas, y, ry, ti,
                   rows, last_bottom, qr_top_limit, qr_y, relocated, markers,
                   marker_y, url_y, url_size, saved>>
    /\ UNCHANGED <<wrapVars, fitVars, estVars>>

\* lines 341-353: artist lines and the header of the right panel
DrawHeader ==
    /\ pc = "right"
    /\ ry' = (pad + 18)
             + (IF info.artists # <<>>
                THEN Len(First2(_wrap(info.artists, font_small, RightW(w) - 40)))
                     * (font_small + 3) + 8
                ELSE 0)
             + (font_body + 8)
    /\ ti' = 0
    /\ pc' = "tracks"
    /\ UNCHANGED <<event_url, info, w, hArg, max_height, h, canvas, y,
                   cover_bottom, rows, last_bottom, qr_top_limit, qr_y,
                   relocated, markers, marker_y, url_y, url_size, saved, error>>
    /\ UNCHANGED <<wrapVars, fitVars, estVars>>

\* number of staff lines drawn for a track (lines 365-367)
StaffLines(t, w_) ==
    IF t.staff # <<>>
    THEN Len(First2(_wrap(Join(t.staff), font_staff, RightW(w_) - 60)))
    ELSE 0

\* lines 355-370: one iteration of the track loop
DrawTrack ==
    /\ pc = "tracks"
    /\ ti < Len(info.tracks)
    /\ LET t == info.tracks[ti + 1]
           main == t.no \o <<"n">> \o t.title
           k == StaffLines(t, w)
           ry1 == ry + font_body + 2
       IN  /\ _wrap(main, font_body, RightW(w) - 40) # <<>>
           /\ rows' = rows + 1
           /\ last_bottom' = IF k = 0 THEN <<ry + font_body>>
                             ELSE <<ry1 + (k - 1) * (font_staff + 2) + font_staff>>
           /\ ry' = ry1 + k * (font_staff + 2) + 8
    /\ ti' = ti + 1
    /\ UNCHANGED <<pc, event_url, info, w, hArg, max_height, h, canvas, y,
                   cover_bottom, qr_top_limit, qr_y, relocated, markers,
                   marker_y, url_y, url_size, saved, error>>
    /\ UNCHANGED <<wrapVars, fitVars, estVars>>

\* qr_y after lines 374-384
QrY(ry_, h_) ==
    IF (ry_ + 18) + qr_size + 8 + font_small + pad > h_ - pad
    THEN h_ - pad - qr_size - 8 - font_small
    ELSE ry_ + 18

\* lines 372-391: the loop is over; the QR block is placed and drawn
PlaceQR ==
    /\ pc = "tracks"
    /\ ti = Len(info.tracks)
    /\ qr_top_limit' = Max(ry + 18, pad + 18)
    /\ qr_y' = QrY(ry, h)
    /\ relocated' = ((ry + 18) + qr_size + 8 + font_small + pad > h - pad)
    /\ IF ry > qr_y'
       THEN markers' = markers + 1 /\ marker_y' = qr_y' - (font_small + 6)
       ELSE UNCHANGED <<markers, marker_y>>
    /\ pc' = "link"
    /\ UNCHANGED <<event_url, info, w, hArg, max_height, h, canvas, y,
                   cover_bottom, ry, ti, rows, last_bottom, url_y, url_size,
                   saved, error>>
    /\ UNCHANGED <<wrapVars, fitVars, estVars>>

\* lines 393-395: the link line
DrawLink ==
    /\ pc = "link"
    /\ url_y' = qr_y + qr_size + 8
    /\ url_size' = fit_one_line_font(event_url, RightW(w) - 40,
                                     url_start_size, url_min_size)
    /\ pc' = "save"
    /\ UNCHANGED <<event_url, info, w, hArg, max_height, h, canvas, y,
                   cover_bottom, ry, ti, rows, last_bottom, qr_top_limit, qr_y,
                   relocated, markers, marker_y, saved, error>>
    /\ UNCHANGED <<wrapVars, fitVars, estVars>>

\* line 397
Save ==
    /\ pc = "save"
    /\ saved' = TRUE
    /\ pc' = "done"
    /\ UNCHANGED <<event_url, info, w, hArg, max_height, h, canvas, y,
                   cover_bottom, ry, ti, rows, last_bottom, qr_top_limit, qr_y,
                   relocated, markers, marker_y, url_y, url_size, error>>
    /\ UNCHANGED <<wrapVars, fitVars, estVars>>

RenderIdle ==
    /\ pc = "idle"
    /\ event_url = <<>>
    /\ info = [release_date |-> <<>>, title |-> <<>>, artists |-> <<>>,
               cover_url |-> None, tracks |-> <<>>]
    /\ w = 0
    /\ hArg = <<>>
    /\ max_height = 0
    /\ h = 0
    /\ canvas = FALSE
    /\ y = 0
    /\ cover_bottom = <<>>
    /\ ry = 0
    /\ ti = 0
    /\ rows = 0
    /\ last_bottom = <<>>
    /\ qr_top_limit = 0
    /\ qr_y = 0
    /\ relocated = FALSE
    /\ markers = 0
    /\ marker_y = 0
    /\ url_y = 0
    /\ url_size = 0
    /\ saved = FALSE
    /\ error = None

WrapIdle ==
    /\ wpc = "idle"
    /\ wText = <<>>
    /\ wSize = 0
    /\ wMaxw = 0
    /\ wOut = <<>>

FitIdle ==
    /\ fpc = "idle"
    /\ fText = <<>>
    /\ fStart = 0
    /\ fMin = 0
    /\ fMaxw = 0
    /\ fSize = 0
    /\ fPrev = 0

EstIdle ==
    /\ epc = "idle"
    /\ eInfo = [release_date |-> <<>>, title |-> <<>>, artists |-> <<>>,
                cover_url |-> None, tracks |-> <<>>]
    /\ eW = 0
    /\ eBefore = 0
    /\ eAfter = 0

Init == RenderIdle /\ WrapIdle /\ FitIdle /\ EstIdle

\* the call of render_card: main() or the batch script hands in the arguments
Render ==
    /\ pc = "idle"
    /\ \E url_ \in Urls, info_ \in Infos, w_ \in Widths, h_ \in Heights,
          max_height_ \in MaxHeights :
          RenderCard(url_, info_, w_, h_, max_height_)
    /\ UNCHANGED <<wrapVars, fitVars, estVars>>

Next ==
    \/ Render
    \/ NewCanvas
    \/ DrawLeft
    \/ DrawCover
    \/ DrawHeader
    \/ DrawTrack
    \/ PlaceQR
    \/ DrawLink
    \/ Save

Spec == Init /\ [][Next]_vars

\* ------------------------------------------------------ _wrap on its own
Texts == UNION {[1..k -> Glyphs] : k \in 0..MaxLen}
WrapSizes == {font_small, font_title}
WrapBudgets == {-20, 0, 15, 40, 60, left_w - 40}

InitWrap ==
    /\ RenderIdle
    /\ FitIdle
    /\ EstIdle
    /\ wpc = "call"
    /\ wText \in Texts
    /\ wSize \in WrapSizes
    /\ wMaxw \in WrapBudgets
    /\ wOut = <<>>

\* lines 38-51
WrapCall ==
    /\ wpc = "call"
    /\ wOut' = _wrap(wText, wSize, wMaxw)
    /\ wpc' = "returned"
    /\ UNCHANGED <<wText, wSize, wMaxw, renderVars, fitVars, estVars>>

NextWrap == WrapCall

SpecWrap == InitWrap /\ [][NextWrap]_vars

\* ------------------------------------------ fit_one_line_font on its own
FitTexts == Texts \cup Urls
FitStarts == {url_start_size, 14, 10}
FitMins == {url_min_size}
FitBudgets == {-40, 0, 30, 40, 60, 640}

InitFit ==
    /\ RenderIdle
    /\ WrapIdle
    /\ EstIdle
    /\ fpc = "call"
    /\ fText \in FitTexts
    /\ fStart \in FitStarts
    /\ fMin \in FitMins
    /\ fMaxw \in FitBudgets
    /\ fSize = 0
    /\ fPrev = 0

\* lines 170-184: the first call
FitCall ==
    /\ fpc = "call"
    /\ fSize' = fit_one_line_font(fText, fMaxw, fStart, fMin)
    /\ fpc' = "returned"
    /\ UNCHANGED <<fText, fStart, fMin, fMaxw, fPrev, renderVars, wrapVars, estVars>>

\* lines 170-184: the same text is fitted again to a smaller budget
FitShrink ==
    /\ fpc = "returned"
    /\ \E m \in FitBudgets :
         /\ m < fMaxw
         /\ fMaxw' = m
         /\ fPrev' = fSize
         /\ fSize' = fit_one_line_font(fText, m, fStart, fMin)
    /\ UNCHANGED <<fpc, fText, fStart, fMin, renderVars, wrapVars, estVars>>

NextFit == FitCall \/ FitShrink

SpecFit == InitFit /\ [][NextFit]_vars

\* ------------------------------------------- _estimate_height on its own
InitEst ==
    /\ RenderIdle
    /\ WrapIdle
    /\ FitIdle
    /\ epc = "call"
    /\ eInfo \in Infos
    /\ eW \in Widths
    /\ eBefore = 0
    /\ eAfter = 0

\* lines 207-236: the right panel accumulation of the record
EstCall ==
    /\ epc = "call"
    /\ eBefore' = RightAccum(eInfo, eW)
    /\ epc' = "estimated"
    /\ UNCHANGED <<eInfo, eW, eAfter, renderVars, wrapVars, fitVars>>

\* lines 207-236 again, on the record with one more track that has staff
EstAppend ==
    /\ epc = "estimated"
    /\ \E t \in Tracks :
         /\ t.staff # <<>>
         /\ eInfo' = [eInfo EXCEPT !.tracks = Append(@, t)]
         /\ eAfter' = RightAccum(eInfo', eW)
    /\ epc' = "appended"
    /\ UNCHANGED <<eW, eBefore, renderVars, wrapVars, fitVars>>

NextEst == EstCall \/ EstAppend

SpecEst == InitEst /\ [][NextEst]_vars

\* ---------------------------------------------------------------- claims
\* the QR block has been placed (lines 372-391 have run)
Placed == pc \in {"link", "save", "done"}

\* max(y, left_min) at line 246
Need == Max(RightAccum(info, w), LeftMin(info))

\* C1: every line _wrap returns is non-empty, and either measures at most
\* the budget or is exactly one character long.
C1_WrapWithinBudget ==
    wpc = "returned" =>
        \A i \in 1..Len(wOut) :
            /\ wOut[i] # <<>>
            /\ Fits(wOut[i], wSize, wMaxw) \/ Len(wOut[i]) = 1

\* a returned wrap of several lines, one of them a single character wider
\* than the budget and another one holding two characters or more
C1_Witness ==
    /\ wpc = "returned"
    /\ \E i \in 1..Len(wOut) : Len(wOut[i]) = 1 /\ ~Fits(wOut[i], wSize, wMaxw)
    /\ \E i \in 1..Len(wOut) : Len(wOut[i]) >= 2

\* C2: the lines _wrap returns, concatenated in order, are the input text,
\* and no line is returned exactly when the text is empty.
C2_WrapPreservesContent ==
    wpc = "returned" =>
        /\ Flatten(wOut) = wText
        /\ (wOut = <<>>) <=> (wText = <<>>)

\* a three character text returned on two lines or more under a positive budget
C2_Witness ==
    /\ wpc = "returned"
    /\ wMaxw > 0
    /\ Len(wText) >= 3
    /\ Len(wOut) >= 2

\* C3 as stated: for automatic and fixed height alike, h <= max_height and
\* h >= max(left_min, right_min), unless that exceeds max_height, and then
\* h = max_height.
C3_ClampAllInputs ==
    pc # "idle" =>
        LET need == Need
        IN  /\ h <= max_height
            /\ need <= max_height => h >= need
            /\ need > max_height => h = max_height

\* C3 amended: h <= max_height always; an automatic height is at least
\* max(left_min, right_min) unless that exceeds max_height, and then it is
\* max_height; a fixed height is min(max_height, the height given).
C3_Clamp ==
    pc # "idle" =>
        /\ h <= max_height
        /\ hArg = <<>> =>
              LET need == Need
              IN  /\ need <= max_height => h >= need
                  /\ need > max_height => h = max_height
        /\ hArg # <<>> => h = Min(max_height, hArg[1])

\* an automatic height whose left panel is the taller one and fits
C3_Witness ==
    /\ pc = "done"
    /\ hArg = <<>>
    /\ h <= max_height
    /\ h = LeftMin(info)
    /\ h > RightAccum(info, w)

\* C4: the final top of the QR block is at or below the bottom of the last
\* line drawn in the tracklist region (track, staff or truncation marker);
\* stated for the canvases whose right panel has a positive width.
C4_NoOverlap ==
    (Placed /\ RightW(w) > 0) =>
        /\ last_bottom # <<>> => qr_y >= last_bottom[1]
        /\ markers > 0 => qr_y >= marker_y + font_small

\* C5: when the tracklist cursor has passed the top of the QR block, exactly
\* one marker line is drawn directly above the block and fewer track rows
\* than the record has tracks were drawn; stated for the canvases whose
\* right panel has a positive width.
C5_Truncates ==
    (Placed /\ RightW(w) > 0 /\ ry > qr_y) =>
        /\ markers = 1
        /\ marker_y + font_small <= qr_y
        /\ rows < Len(info.tracks)

\* C6: with an automatic height that is not clamped the draw pass fits the
\* canvas: the cursor after the last track is not below the QR top and no
\* marker is drawn, the link line ends at or above h - pad, and so does the
\* cover square.
C6_EstimateFitsDraw ==
    (hArg = <<>> /\ pc # "idle") =>
        \/ /\ Placed => ry <= qr_y /\ markers = 0
           /\ pc \in {"save", "done"} => url_y + font_small <= h - pad
           /\ cover_bottom # <<>> => cover_bottom[1] <= h - pad
        \/ Need > max_height

\* a finished card of automatic, unclamped height whose right panel, with
\* two tracks or more, is the taller one
C6_Witness ==
    /\ pc = "done"
    /\ hArg = <<>>
    /\ Need <= max_height
    /\ Len(info.tracks) >= 2
    /\ RightAccum(info, w) > LeftMin(info)
    /\ cover_bottom # <<>>

\* C7 as stated: the size chosen does not grow when the budget shrinks, and
\* at budget 0 it is min_size for any string.
C7_MonotoneAnyString ==
    /\ fPrev # 0 => fSize <= fPrev
    /\ (fpc = "returned" /\ fMaxw = 0) => fSize = fMin

\* C7 amended: the size chosen does not grow when the budget shrinks, and
\* at budget 0 it is min_size for any string of positive measured width.
C7_Monotone ==
    /\ fPrev # 0 => fSize <= fPrev
    /\ (fpc = "returned" /\ fMaxw = 0 /\ TextLength2(fText, fMin) > 0)
           => fSize = fMin

\* a text fitted at a larger size first and, the budget shrunk to 0, at
\* min_size
C7_Witness ==
    /\ fpc = "returned"
    /\ fMaxw = 0
    /\ fPrev > fMin
    /\ fSize = fMin
    /\ TextLength2(fText, fMin) > 0

\* C8: fit_one_line_font returns the largest size of min_size..start_size at
\* which the text fits the budget, and min_size when none does (also when
\* start_size < min_size).
C8_LargestFit ==
    fpc = "returned" =>
        LET fitting == {sz \in fMin..fStart : Fits(fText, sz, fMaxw)}
        IN  IF fitting = {} THEN fSize = fMin
            ELSE fSize \in fitting /\ \A sz \in fitting : sz <= fSize

\* a text that fits at some size strictly between min_size and start_size
C8_Witness ==
    /\ fpc = "returned"
    /\ fMin < fSize
    /\ fSize < fStart
    /\ ~Fits(fText, fStart, fMaxw)
    /\ Fits(fText, fMin, fMaxw)

\* C9: no failure to obtain the cover image leaves render_card as an error.
C9_CoverFailureTolerated ==
    pc = "raised" => error \notin FetchErrors

\* C10: with a non-positive right panel width render_card refuses to
\* proceed: no image is written.
C10_RefusesBadWidth ==
    (pc # "idle" /\ RightW(w) <= 0) => ~saved

C12_RelocatesOnlyUpward ==
    (Placed /\ RightW(w) > 0 /\ relocated) =>
        /\ (ry + 18) + qr_size + 8 + font_small > h - pad
        /\ qr_y <= ry + 18
        /\ qr_y + qr_size + 8 + font_small = h - pad

\* C13: the final top of the QR block is never above pad + 18, the first
\* content line of the right panel.  Stated for the canvases whose right
\* panel has a positive width.
C13_QrBelowPanelTop ==
    (Placed /\ RightW(w) > 0) => qr_y >= pad + 18

====
